---- MODULE Spec2Model ----
(***************************************************************************)
(* Credential management of the customer dashboard (src/auth.py):          *)
(* password hashing and verification, the AuthManager with its MongoDB     *)
(* collection and its local JSON file, and the operations create_user,     *)
(* authenticate and list_users.                                            *)
(*                                                                         *)
(* Strings are sequences of one-character strings; the three markers       *)
(* "$2a$", "$2b$" and "devhash$" and a bcrypt salt are one element each.   *)
(* A bcrypt hash of password p under salt s is <<"$2b$", s>> \o p : the    *)
(* digest is kept as the password it was computed from, which makes        *)
(* bcrypt.checkpw a comparison, as it is for passwords bcrypt tells apart. *)
(***************************************************************************)
EXTENDS Integers, Sequences, FiniteSets, TLC

VARIABLES pc, bcrypt, use_mongo, file, coll, epoch, res, probe, th, acked, overlap

vars == <<pc, bcrypt, use_mongo, file, coll, epoch, res, probe, th, acked, overlap>>

(* ------------------------------ bounds --------------------------------- *)
MaxRecords == 2
MaxLifetimes == 2
MaxStoredLen == 2
NumThreads == 2

(* ------------------------------ strings -------------------------------- *)
SeqsUpTo(S, n) == UNION {[1..k -> S] : k \in 0..n}

(* The inputs: an empty, a blank, a plain and a padded username; an empty  *)
(* and two different passwords.                                            *)
Usernames == {<<>>, <<" ">>, <<"a">>, <<" ", "a">>}
Passwords == {<<>>, <<"p">>, <<"q">>}
(* The role is stored and returned as given; "admin" enters with the       *)
(* default administrator.                                                  *)
Roles == {"user"}
Salts == {"s1"}

AdminName == <<"a", "d", "m", "i", "n">>
AdminPassword == <<"a", "d", "m", "i", "n", "1", "2", "3">>

RECURSIVE lstrip(_)
lstrip(s) == IF s # <<>> /\ Head(s) = " " THEN lstrip(Tail(s)) ELSE s

RECURSIVE rstrip(_)
rstrip(s) == IF s # <<>> /\ s[Len(s)] = " " THEN rstrip(SubSeq(s, 1, Len(s) - 1)) ELSE s

strip(s) == rstrip(lstrip(s))

(* Python's None, as a value no string equals. *)
NoneVal == <<"<None>">>

Truthy(s) == s # NoneVal /\ s # <<>>

startswith(s, marker) == Len(s) > 0 /\ s[1] = marker

(* ------------------------- password hashing ---------------------------- *)
hashpw(password, salt) == <<"$2b$", salt>> \o password

(* bcrypt.checkpw raises on a value that is not a bcrypt hash. *)
checkpw(password, stored) ==
    IF Len(stored) >= 2 /\ stored[1] \in {"$2a$", "$2b$"} /\ stored[2] \in Salts
    THEN [raised |-> FALSE, value |-> SubSeq(stored, 3, Len(stored)) = password]
    ELSE [raised |-> TRUE, value |-> FALSE]

_hash_pw(bc, password, salt) ==
    IF bc THEN hashpw(password, salt) ELSE <<"devhash$">> \o password

(* Variants of _check_pw with a plausible slip: the devhash branch tests   *)
(* the marker only; the routine follows the hashing mode, not the marker.  *)
_check_pw_marker_only(bc, password, stored) ==
    IF bc /\ stored # NoneVal /\ (startswith(stored, "$2b$") \/ startswith(stored, "$2a$"))
    THEN [raised |-> FALSE,
          value |-> LET c == checkpw(password, stored)
                    IN  IF c.raised THEN FALSE ELSE c.value]
    ELSE [raised |-> FALSE, value |-> Truthy(stored) /\ startswith(stored, "devhash$")]

_check_pw_by_mode(bc, password, stored) ==
    IF bc
    THEN [raised |-> FALSE,
          value |-> LET c == checkpw(password, stored)
                    IN  IF c.raised THEN FALSE ELSE c.value]
    ELSE [raised |-> FALSE, value |-> stored = <<"devhash$">> \o password]

(* "A and B and C or (A and D)": the second operand calls startswith on    *)
(* stored without the truthiness test of the first.                        *)
_check_pw(bc, password, stored) ==
    LET first == bc /\ Truthy(stored) /\ startswith(stored, "$2b$")
        secondRaises == ~first /\ bc /\ stored = NoneVal
        second == ~first /\ bc /\ stored # NoneVal /\ startswith(stored, "$2a$")
    IN  IF secondRaises THEN [raised |-> TRUE, value |-> FALSE]
        ELSE IF first \/ second
             THEN [raised |-> FALSE,
                   value |-> LET c == checkpw(password, stored)
                             IN  IF c.raised THEN FALSE ELSE c.value]
        ELSE IF Truthy(stored) /\ startswith(stored, "devhash$")
             THEN [raised |-> FALSE, value |-> stored = <<"devhash$">> \o password]
        ELSE [raised |-> FALSE, value |-> FALSE]

(* ------------------------------ records -------------------------------- *)
(* username, password and role are the stored document.  isdict tells a    *)
(* JSON object from any other element of the list.  plain, born and strong *)
(* are history: the password, the lifetime and the hashing mode of the     *)
(* create_user call that wrote the record.                                 *)
Doc(u, h, r, p, e, s) ==
    [isdict |-> TRUE, username |-> u, password |-> h, role |-> r,
     plain |-> p, born |-> e, strong |-> s]

NonDict ==
    [isdict |-> FALSE, username |-> <<>>, password |-> <<>>, role |-> "",
     plain |-> <<>>, born |-> 0, strong |-> FALSE]

ListFile(items) == [kind |-> "list", items |-> items]
AbsentFile == [kind |-> "absent", items |-> <<>>]

_read_local(f) == IF f.kind = "list" THEN f.items ELSE <<>>

_write_local(data) == ListFile(data)

(* First element a scan for username stops at: a match, or an element on   *)
(* which .get fails; 0 when the scan runs to the end.                      *)
FirstHit(data, username) ==
    LET hits == {i \in 1..Len(data) : ~data[i].isdict \/ data[i].username = username}
    IN  IF hits = {} THEN 0 ELSE CHOOSE i \in hits : \A j \in hits : i <= j

(* ---------------------------- AuthManager ------------------------------ *)
(* create_user, line 85 *)
create_key_raw(username) == username
create_key(username) == strip(username)

(* authenticate, line 102 *)
auth_key_raw(username) == username
auth_key(username) == strip(username)

Outcome(o, f, c) == [outcome |-> o, file |-> f, coll |-> c]

(* create_user, lines 83-96 on the local file: everything before the      *)
(* write. "write" stands for reaching line 97 with data, user_doc appended. *)
Checked(o, data, doc) == [outcome |-> o, data |-> data, doc |-> doc]

create_check(bc, salt, f, username, password, role, ep) ==
    IF username = <<>> \/ password = <<>>
    THEN Checked("InvalidArgument", <<>>, NonDict)
    ELSE LET u == create_key(username)
             hashed == _hash_pw(bc, password, salt)
             user_doc == Doc(u, hashed, role, password, ep, bc)
             data == _read_local(f)
             hit == FirstHit(data, u)
         IN  IF hit # 0
             THEN IF data[hit].isdict
                  THEN Checked("Conflict", <<>>, NonDict)
                  ELSE Checked("AttributeError", <<>>, NonDict)
             ELSE Checked("write", Append(data, user_doc), user_doc)

(* create_user, line 97: the list read at line 93, with user_doc appended, *)
(* replaces the file.  The variant appends to what the file holds now.     *)
write_back_reread(f, data, doc) == _write_local(Append(_read_local(f), doc))
write_back(f, data, doc) == _write_local(data)

create_user(um, bc, salt, f, c, username, password, role, ep) ==
    IF um
    THEN IF username = <<>> \/ password = <<>>
         THEN Outcome("InvalidArgument", f, c)
         ELSE LET u == create_key(username)
                  hashed == _hash_pw(bc, password, salt)
                  user_doc == Doc(u, hashed, role, password, ep, bc)
              IN  IF FirstHit(c, u) # 0
                  THEN Outcome("Conflict", f, c)
                  ELSE Outcome("ok", f, Append(c, user_doc))
    ELSE LET h == create_check(bc, salt, f, username, password, role, ep)
         IN  IF h.outcome = "write"
             THEN Outcome("ok", write_back(f, h.data, h.doc), c)
             ELSE Outcome(h.outcome, f, c)

Null == <<>>
Identity(doc) == <<[username |-> doc.username, role |-> doc.role]>>
AuthResult(o, i) == [outcome |-> o, ident |-> i]

authenticate(um, bc, f, c, username, password) ==
    IF username = <<>> \/ password = <<>>
    THEN AuthResult("ok", Null)
    ELSE LET u == auth_key(username)
             data == IF um THEN c ELSE _read_local(f)
             hit == FirstHit(data, u)
         IN  IF hit = 0
             THEN AuthResult("ok", Null)
             ELSE IF ~data[hit].isdict
             THEN AuthResult("AttributeError", Null)
             ELSE LET chk == _check_pw(bc, password, data[hit].password)
                  IN  IF chk.raised THEN AuthResult("AttributeError", Null)
                      ELSE IF chk.value THEN AuthResult("ok", Identity(data[hit]))
                      ELSE AuthResult("ok", Null)

list_users(um, f, c) ==
    LET data == IF um THEN c ELSE _read_local(f)
    IN  IF \E i \in 1..Len(data) : ~data[i].isdict
        THEN [outcome |-> "AttributeError", listing |-> <<>>]
        ELSE [outcome |-> "ok",
              listing |-> [i \in 1..Len(data) |->
                              [username |-> data[i].username, role |-> data[i].role]]]

(* __init__, lines 44-57: MongoDB is chosen when the driver is imported,   *)
(* the secrets hold a uri and server_info() answers; every failure in the  *)
(* try block leaves the local file.                                        *)
select_store_noping(pm, conf, reach) == pm /\ conf = "uri"
select_store(pm, conf, reach) == pm /\ conf = "uri" /\ reach

(* __init__, lines 59-62 *)
ensure_local(f) == IF f.kind = "absent" THEN ListFile(<<>>) ELSE f

(* __init__, lines 65-67 *)
needs_admin(um, f, c) == ~um /\ _read_local(f) = <<>>

NoEnv == [pymongo |-> FALSE, conf |-> "absent", reach |-> FALSE]
Res(op, u, p, o, i, l, e) ==
    [op |-> op, u |-> u, p |-> p, outcome |-> o, ident |-> i, listing |-> l, env |-> e]
NoRes == Res("none", <<>>, <<>>, "ok", Null, <<>>, NoEnv)

NoProbe == [password |-> <<>>, stored |-> <<>>, done |-> FALSE, raised |-> FALSE, value |-> FALSE]
Threads == 1..NumThreads
Idle == Checked("none", <<>>, NonDict)

Init ==
    /\ pc = "down"
    /\ bcrypt = FALSE
    /\ use_mongo = FALSE
    /\ file = AbsentFile
    /\ coll = <<>>
    /\ epoch = 0
    /\ res = NoRes
    /\ probe = NoProbe
    /\ th = [t \in Threads |-> Idle]
    /\ acked = {}
    /\ overlap = FALSE

Construct(bc, pm, conf, reach, salt) ==
    /\ pc = "down"
    /\ epoch < MaxLifetimes
    /\ LET um == select_store(pm, conf, reach)
           f1 == ensure_local(file)
           boot == needs_admin(um, f1, coll)
           r == IF boot
                THEN create_user(um, bc, salt, f1, coll, AdminName, AdminPassword,
                                 "admin", epoch + 1)
                ELSE Outcome("ok", f1, coll)
       IN  /\ bcrypt' = bc
           /\ use_mongo' = um
           /\ file' = r.file
           /\ coll' = r.coll
           /\ res' = Res("init", <<>>, <<>>, r.outcome, Null, <<>>,
                         [pymongo |-> pm, conf |-> conf, reach |-> reach])
           /\ pc' = IF r.outcome = "ok" THEN "up" ELSE "down"
    /\ epoch' = epoch + 1
    /\ UNCHANGED <<probe, th, acked, overlap>>

CreateUser(username, password, role, salt) ==
    /\ pc = "up"
    /\ LET r == create_user(use_mongo, bcrypt, salt, file, coll, username, password,
                            role, epoch)
       IN  /\ r.outcome = "ok" => Len(_read_local(file)) + Len(coll) < MaxRecords
           /\ file' = r.file
           /\ coll' = r.coll
           /\ res' = Res("create", username, password, r.outcome, Null, <<>>, NoEnv)
    /\ UNCHANGED <<pc, bcrypt, use_mongo, epoch, probe, th, acked, overlap>>

Authenticate(username, password) ==
    /\ pc = "up"
    /\ LET r == authenticate(use_mongo, bcrypt, file, coll, username, password)
       IN  res' = Res("auth", username, password, r.outcome, r.ident, <<>>, NoEnv)
    /\ UNCHANGED <<pc, bcrypt, use_mongo, file, coll, epoch, probe, th, acked, overlap>>

ListUsers ==
    /\ pc = "up"
    /\ LET r == list_users(use_mongo, file, coll)
       IN  res' = Res("list", <<>>, <<>>, r.outcome, Null, r.listing, NoEnv)
    /\ UNCHANGED <<pc, bcrypt, use_mongo, file, coll, epoch, probe, th, acked, overlap>>

(* The process ends; the file and the collection outlive it. *)
Shutdown ==
    /\ pc = "up"
    /\ pc' = "down"
    /\ res' = NoRes
    /\ UNCHANGED <<bcrypt, use_mongo, file, coll, epoch, probe, th, acked, overlap>>

Confs == {"absent", "nouri", "uri"}

Logins == (Usernames \X Passwords) \cup {<<AdminName, AdminPassword>>, <<AdminName, <<"p">>>>}

Next ==
    \/ \E bc \in BOOLEAN, pm \in BOOLEAN, conf \in Confs, reach \in BOOLEAN, salt \in Salts :
          Construct(bc, pm, conf, reach, salt)
    \/ \E u \in Usernames, p \in Passwords, r \in Roles, salt \in Salts : CreateUser(u, p, r, salt)
    \/ \E l \in Logins : Authenticate(l[1], l[2])
    \/ ListUsers
    \/ Shutdown

Spec == Init /\ [][Next]_vars

(* ======================= properties of Spec ============================ *)
Stored == IF use_mongo THEN coll ELSE _read_local(file)

HasUser(data, name) == \E i \in 1..Len(data) : data[i].isdict /\ data[i].username = name
CountUser(data, name) ==
    Cardinality({i \in 1..Len(data) : data[i].isdict /\ data[i].username = name})

(* C1: once create_user(u, p) with non-empty u and p has succeeded on this  *)
(* AuthManager, every later authenticate(u, p) on it returns an identity    *)
(* whose username is u without its surrounding whitespace.                  *)
C1_CreateThenAuthenticate ==
    (pc = "up" /\ res.op = "auth" /\ res.u # <<>> /\ res.p # <<>>) =>
        \A i \in 1..Len(Stored) :
            (/\ Stored[i].born = epoch
             /\ Stored[i].username = strip(res.u)
             /\ Stored[i].plain = res.p)
            => (/\ res.outcome = "ok"
                /\ res.ident = <<[username |-> strip(res.u), role |-> Stored[i].role]>>)

C1_Witness ==
    /\ pc = "up" /\ res.op = "auth" /\ res.u = <<" ", "a">> /\ res.p = <<"p">>
    /\ res.ident = <<[username |-> <<"a">>, role |-> "user"]>>
    /\ \E i \in 1..Len(Stored) :
          Stored[i].born = epoch /\ Stored[i].username = <<"a">> /\ Stored[i].plain = <<"p">>

(* C2 as stated: create_user with a (non-empty) username whose trimmed     *)
(* form is already in the active store fails with Conflict whatever the    *)
(* password, and the store is unchanged with exactly one record of that    *)
(* username.                                                               *)
C2_ConflictWhateverPassword ==
    [][(/\ pc = "up" /\ pc' = "up" /\ res'.op = "create"
        /\ HasUser(Stored, strip(res'.u)) /\ res'.u # <<>>)
        => (/\ res'.outcome = "Conflict"
            /\ file' = file /\ coll' = coll
            /\ CountUser(Stored', strip(res'.u)) = 1)]_vars

(* C2 amended: create_user with a username whose trimmed form is already   *)
(* in the active store fails - with InvalidArgument when the username or   *)
(* the password given is empty, with Conflict otherwise - and the store is *)
(* unchanged, still with exactly one record of that username.              *)
C2_ExistingUsernameRejected ==
    [][(pc = "up" /\ pc' = "up" /\ res'.op = "create" /\ HasUser(Stored, strip(res'.u)))
        => (/\ res'.outcome = IF res'.u = <<>> \/ res'.p = <<>>
                              THEN "InvalidArgument" ELSE "Conflict"
            /\ file' = file /\ coll' = coll
            /\ CountUser(Stored', strip(res'.u)) = 1)]_vars

C2_Witness ==
    /\ pc = "up" /\ res.op = "create" /\ res.outcome = "Conflict"
    /\ res.u = <<" ", "a">>
    /\ \E i \in 1..Len(Stored) : Stored[i].username = <<"a">> /\ Stored[i].plain # res.p

(* C3: authenticate never raises; it returns null when an argument is      *)
(* empty, when no record has the trimmed username, and when the record was *)
(* created with another password; it leaves both stores as they were.      *)
C3_AuthenticateNull ==
    [][(pc' = "up" /\ res'.op = "auth")
        => (/\ res'.outcome = "ok"
            /\ file' = file /\ coll' = coll
            /\ (res'.u = <<>> \/ res'.p = <<>>) => res'.ident = Null
            /\ ~HasUser(Stored, strip(res'.u)) => res'.ident = Null
            /\ \A i \in 1..Len(Stored) :
                  (i = FirstHit(Stored, strip(res'.u)) /\ Stored[i].plain # res'.p)
                  => res'.ident = Null)]_vars

C3_Witness ==
    /\ pc = "up" /\ res.op = "auth" /\ res.ident = Null /\ res.p = <<"q">>
    /\ \E i \in 1..Len(Stored) : Stored[i].username = strip(res.u) /\ Stored[i].plain = <<"p">>

(* C4: construction leaves an active store that was empty with exactly one *)
(* record, admin with role admin, for which authenticate("admin",          *)
(* "admin123") succeeds, whichever store is active; it adds nothing to an  *)
(* active store that held a record.                                        *)
C4_BootstrapEitherStore ==
    [][(pc = "down" /\ pc' = "up" /\ res'.op = "init")
        => LET before == IF use_mongo' THEN coll ELSE _read_local(file)
               after == IF use_mongo' THEN coll' ELSE _read_local(file')
           IN  IF before = <<>>
               THEN /\ Len(after) = 1
                    /\ after[1].username = AdminName
                    /\ after[1].role = "admin"
                    /\ authenticate(use_mongo', bcrypt', file', coll',
                                    AdminName, AdminPassword).ident # Null
               ELSE after = before]_vars

LivenessChecked(env) == env.pymongo /\ env.reach

(* C5: construction never raises and selects the local file when the       *)
(* secrets hold no uri or the liveness check does not succeed, MongoDB     *)
(* otherwise; while the AuthManager lives the selection stays, the other   *)
(* store is never written, and the results of authenticate and list_users  *)
(* are those computed from the selected store alone.                       *)
C5_StoreSelectedOnce ==
    [][/\ (pc = "down" /\ res'.op = "init")
            => (/\ res'.outcome = "ok" /\ pc' = "up"
                /\ use_mongo' = ~(res'.env.conf # "uri" \/ ~LivenessChecked(res'.env)))
       /\ (pc = "up" /\ pc' = "up")
            => (/\ use_mongo' = use_mongo
                /\ use_mongo => file' = file
                /\ ~use_mongo => coll' = coll
                /\ res'.op = "create" =>
                      /\ res'.outcome = "ok" => Stored' # Stored
                      /\ res'.outcome # "ok" => Stored' = Stored
                /\ res'.op = "auth" =>
                      res'.ident = authenticate(use_mongo, bcrypt,
                                                IF use_mongo THEN AbsentFile ELSE file,
                                                IF use_mongo THEN coll ELSE <<>>,
                                                res'.u, res'.p).ident
                /\ res'.op = "list" =>
                      res'.listing = list_users(use_mongo,
                                                IF use_mongo THEN AbsentFile ELSE file,
                                                IF use_mongo THEN coll ELSE <<>>).listing)]_vars

C5_Witness ==
    /\ pc = "up" /\ use_mongo /\ epoch = 2
    /\ res.op = "create" /\ res.outcome = "ok"
    /\ Len(_read_local(file)) = 1 /\ Len(coll) = 1

(* C6: every stored record has a non-empty username without surrounding    *)
(* whitespace.                                                             *)
WellNamed(data) ==
    \A i \in 1..Len(data) :
        data[i].username # <<>> /\ Head(data[i].username) # " "
                                /\ data[i].username[Len(data[i].username)] # " "

C6_UsernamesNonEmptyTrimmed == WellNamed(_read_local(file)) /\ WellNamed(coll)

(* C10: verification follows the marker of the stored value: a devhash     *)
(* record authenticates with the password it was created with, and with no *)
(* other, in strong and in degraded mode; in degraded mode a record with a *)
(* strong marker, so every record created in strong mode, authenticates    *)
(* with no password; and construction adds no administrator to a local     *)
(* file that holds a record.                                               *)
C10_DispatchOnMarker ==
    [][/\ (pc' = "up" /\ res'.op = "auth" /\ res'.u # <<>> /\ res'.p # <<>>)
            => \A i \in 1..Len(Stored) :
                  i = FirstHit(Stored, strip(res'.u)) =>
                     /\ startswith(Stored[i].password, "devhash$")
                           => ((res'.ident # Null) <=> (res'.p = Stored[i].plain))
                     /\ (~bcrypt /\ (\/ startswith(Stored[i].password, "$2a$")
                                     \/ startswith(Stored[i].password, "$2b$")))
                           => res'.ident = Null
                     /\ (~bcrypt /\ Stored[i].strong) => res'.ident = Null
       /\ (pc = "down" /\ res'.op = "init" /\ ~use_mongo' /\ _read_local(file) # <<>>)
            => file' = file]_vars

C10_Witness ==
    /\ pc = "up" /\ ~bcrypt /\ res.op = "auth" /\ res.ident = Null
    /\ \E i \in 1..Len(Stored) :
          /\ Stored[i].strong /\ Stored[i].username = strip(res.u)
          /\ Stored[i].plain = res.p

(* ============ the local file with content no run wrote ================= *)
(* A local file found at start-up that is not JSON, that is JSON but not a *)
(* list, or that is a list with an element that is not an object.          *)
OldAdmin ==
    Doc(AdminName, <<"devhash$">> \o AdminPassword, "admin", AdminPassword, 0, FALSE)

MalformedFiles ==
    { [kind |-> "unparsable", items |-> <<>>],
      [kind |-> "nonlist", items |-> <<>>],
      ListFile(<<NonDict>>),
      ListFile(<<OldAdmin, NonDict>>),
      ListFile(<<NonDict, OldAdmin>>) }

IsMalformed(f) ==
    \/ f.kind \in {"unparsable", "nonlist"}
    \/ \E i \in 1..Len(f.items) : ~f.items[i].isdict

InitMalformed ==
    /\ pc = "down"
    /\ bcrypt = FALSE
    /\ use_mongo = FALSE
    /\ file \in MalformedFiles
    /\ coll = <<>>
    /\ epoch = 0
    /\ res = NoRes
    /\ probe = NoProbe
    /\ th = [t \in Threads |-> Idle]
    /\ acked = {}
    /\ overlap = FALSE

SpecMalformed == InitMalformed /\ [][Next]_vars

(* C8: with a malformed local file, construction and every operation on    *)
(* the local store behave as on an empty list and surface no error: the    *)
(* administrator is bootstrapped, authenticate returns null, list_users    *)
(* returns nothing, create_user of a valid user succeeds and leaves one    *)
(* record.                                                                 *)
C8_MalformedAsEmpty ==
    [][(IsMalformed(file) /\ ~use_mongo' /\ pc' = "up"
        /\ res'.op \in {"init", "create", "auth", "list"})
        => (/\ res'.outcome \in {"ok", "InvalidArgument"}
            /\ res'.op = "auth" => res'.ident = Null
            /\ res'.op = "list" => res'.listing = <<>>
            /\ res'.op = "init" =>
                  /\ Len(_read_local(file')) = 1
                  /\ _read_local(file')[1].username = AdminName
            /\ (res'.op = "create" /\ res'.outcome = "ok") =>
                  Len(_read_local(file')) = 1)]_vars

(* ===================== _check_pw on its own ============================ *)
Markers == {"$2a$", "$2b$", "devhash$"}
StoredChars == Markers \cup Salts \cup {"p", "q"}
StoredValues == {NoneVal} \cup SeqsUpTo(StoredChars, MaxStoredLen)

InitPw ==
    /\ pc = "down"
    /\ bcrypt \in BOOLEAN
    /\ use_mongo = FALSE
    /\ file = AbsentFile
    /\ coll = <<>>
    /\ epoch = 0
    /\ res = NoRes
    /\ probe \in {[password |-> p, stored |-> s, done |-> FALSE, raised |-> FALSE,
                   value |-> FALSE] : p \in Passwords, s \in StoredValues}
    /\ th = [t \in Threads |-> Idle]
    /\ acked = {}
    /\ overlap = FALSE

CheckPw ==
    /\ ~probe.done
    /\ LET r == _check_pw(bcrypt, probe.password, probe.stored)
       IN  probe' = [probe EXCEPT !.done = TRUE, !.raised = r.raised, !.value = r.value]
    /\ UNCHANGED <<pc, bcrypt, use_mongo, file, coll, epoch, res, th, acked, overlap>>

NextPw == CheckPw

SpecPw == InitPw /\ [][NextPw]_vars

Unrecognized(s) ==
    \/ s = NoneVal
    \/ s = <<>>
    \/ s[1] \notin Markers
    \/ s[1] \in {"$2a$", "$2b$"} /\ checkpw(<<>>, s).raised

(* C9: _check_pw never raises, and returns false for a stored value that   *)
(* is missing, empty, without a known marker, or marked strong and not a   *)
(* hash bcrypt accepts, with bcrypt and without.                           *)
C9_VerifyNeverRaises ==
    probe.done =>
        /\ ~probe.raised
        /\ Unrecognized(probe.stored) => ~probe.value

(* ============ concurrent create_user on the local file ================= *)
(* Threads share one AuthManager on the local file.  A call reads the file *)
(* and checks (CreateBegin), and later writes (CreateWrite); calls of      *)
(* other threads may come between.  acked holds the records whose call     *)
(* returned success, overlap tells whether a call began while another was between  *)
(* its read and its write.                                                 *)
InitConc ==
    /\ pc = "up"
    /\ bcrypt \in BOOLEAN
    /\ use_mongo = FALSE
    /\ \E salt \in Salts :
          file = create_user(FALSE, bcrypt, salt, ListFile(<<>>), <<>>, AdminName,
                             AdminPassword, "admin", 1).file
    /\ coll = <<>>
    /\ epoch = 1
    /\ res = NoRes
    /\ probe = NoProbe
    /\ th = [t \in Threads |-> Idle]
    /\ acked = {}
    /\ overlap = FALSE

CreateBegin(t, username, password, role, salt) ==
    /\ th[t].outcome # "write"
    /\ LET h == create_check(bcrypt, salt, file, username, password, role, epoch)
       IN  /\ h.outcome = "write" => Len(h.data) <= MaxRecords
           /\ th' = [th EXCEPT ![t] = IF h.outcome = "write" THEN h ELSE Idle]
           /\ overlap' = (overlap \/ (h.outcome = "write" /\
                                      \E o \in Threads \ {t} : th[o].outcome = "write"))
    /\ UNCHANGED <<pc, bcrypt, use_mongo, file, coll, epoch, res, probe, acked>>

CreateWrite(t) ==
    /\ th[t].outcome = "write"
    /\ file' = write_back(file, th[t].data, th[t].doc)
    /\ th' = [th EXCEPT ![t] = Idle]
    /\ acked' = acked \cup {th[t].doc}
    /\ UNCHANGED <<pc, bcrypt, use_mongo, coll, epoch, res, probe, overlap>>

NextConc ==
    \/ \E t \in Threads, u \in Usernames, p \in Passwords, r \in Roles, salt \in Salts :
          CreateBegin(t, u, p, r, salt)
    \/ \E t \in Threads : CreateWrite(t)

SpecConc == InitConc /\ [][NextConc]_vars

InFile(doc) == \E i \in 1..Len(_read_local(file)) : _read_local(file)[i] = doc

Lost == \E a \in acked : ~InFile(a)

NoDuplicates ==
    \A i, j \in 1..Len(_read_local(file)) :
        _read_local(file)[i].username = _read_local(file)[j].username => i = j

====
